---- MODULE Spec2Model ----
(***************************************************************************)
(* A model of three components of the koa compiler:                        *)
(*   - parse.Lexer        (src/parse/lex.go): the run goroutine, the token *)
(*                        channel, emit and NextToken;                     *)
(*   - translate.MemEntryTable (src/translate/tracer.go);                  *)
(*   - translate.Asm      (src/translate/bytecode.go).                     *)
(* Each component has its own specification (SpecLexer, SpecMem, SpecAsm); *)
(* a component's actions leave the other components' variables unchanged.  *)
(***************************************************************************)
EXTENDS Integers, Sequences, FiniteSets, TLC

VARIABLES
    \* ---- parse.Lexer ----
    input,      \* state.input, as a sequence of characters
    start,      \* state.start
    pos,        \* state.pos
    line,       \* state.line
    stateFn,    \* the loop variable stateFn of Lexer.run
    rpc,        \* position of the run goroutine: "test" | "call" | "done"
    tokench,    \* the buffered contents of Lexer.tokench, oldest first
    closed,     \* whether close(l.tokench) has been executed
    epc,        \* position of the caller of emit: "idle" | "sending"
    pending,    \* the token the blocked emit call is about to send
    emitted,    \* history: the tokens passed to emit, in call order
    cpc,        \* position of the consumer: "idle" | "receiving" | "abandoned"
    received,   \* history: the tokens returned by NextToken, in return order
    eos,        \* whether a NextToken call has returned from the closed channel
    \* ---- translate.MemEntryTable ----
    EntryMap,       \* MemEntryTable.EntryMap: a function id -> MemEntry
    MemoryCounter,  \* MemEntryTable.MemoryCounter
    defs,           \* history: <<id, size>> of every Define call, in call order
    memOp,          \* the last operation called on the table
    memId,          \* the id argument of the last operation
    memRet,         \* what the last operation returned
    lastDefine,     \* history: << >>, or the entry the most recent Define returned
    \* ---- translate.Asm ----
    AsmCodes,       \* Asm.AsmCodes: a sequence of AsmCode
    asmOp,          \* the last operation called on the Asm
    asmOperator,    \* the operator argument of the last operation
    asmOperands,    \* the operands argument of the last operation
    asmRet,         \* the count the last Emerge or EmergeAt returned
    asmIndex,       \* the index argument of the last operation
    asmErr,         \* the error the last ReplaceOperandAt or ReplaceOperatorAt returned
    plain,          \* history: every call that changed the Asm so far was an
                    \* Emerge whose operands have 4 bytes each
    prevPlain,      \* history: plain as it was before the last operation
    instrs,         \* history: while plain, the <<operator, operands>> of those
                    \* Emerge calls, in call order
    \* ---- translate.Asm.Equal, applied to two Asms ----
    eqA,            \* the AsmCodes of the receiver a
    eqB,            \* the AsmCodes of the argument a1
    eqOp,           \* "new", or the last of Equal, ToRawByteCode, String called
    eqRet,          \* what a.Equal(a1), a1.Equal(a) and a.Equal(a) returned
    eqDone,         \* which of Equal, ToRawByteCode, String have been called
    eqRaw,          \* what a.ToRawByteCode() and a1.ToRawByteCode() returned
    eqStr,          \* what a.String() and a1.String() returned
    \* ---- parse.state: cut and the state functions applied to a state ----
    stOp,           \* the last function applied to the state
    stRet           \* what it returned: a token (cut), or the tokens emitted
                    \* and the next state function (a state function)

lexVars == <<input, start, pos, line, stateFn, rpc, tokench, closed,
             epc, pending, emitted, cpc, received, eos>>
memVars == <<EntryMap, MemoryCounter, defs, memOp, memId, memRet, lastDefine>>
asmVars == <<AsmCodes, asmOp, asmOperator, asmOperands, asmRet,
             asmIndex, asmErr, plain, prevPlain, instrs>>
eqVars == <<eqA, eqB, eqOp, eqRet, eqDone, eqRaw, eqStr>>
stVars == <<stOp, stRet>>
vars == <<lexVars, memVars, asmVars, eqVars, stVars>>

----------------------------------------------------------------------------
(* Bounds of the model *)

MaxInputLen == 2    \* longest input string handed to NewLexer
MaxEmits == 4       \* most emit calls in one lexical session
MaxDefines == 3     \* most Define calls on one table
MaxValueLen == 2    \* longest value handed to Define
MaxUnits == 4       \* most units in one Asm
MaxOperands == 2    \* most operands of one instruction
MaxEqualLen == 2    \* most units in an Asm handed to Equal

----------------------------------------------------------------------------
(* Helpers *)

RECURSIVE SeqsUpTo(_, _)
SeqsUpTo(S, n) ==
    IF n = 0 THEN {<< >>}
    ELSE LET shorter == SeqsUpTo(S, n - 1)
         IN  shorter \cup {Append(s, x) : s \in {t \in shorter : Len(t) = n - 1}, x \in S}

IsPrefix(s, t) == Len(s) <= Len(t) /\ SubSeq(t, 1, Len(s)) = s

----------------------------------------------------------------------------
(* parse.Lexer *)

Chars == {"1", "a"}
Inputs == SeqsUpTo(Chars, MaxInputLen)

\* Token{Type, literal, column, line}: the four fields of the composite
\* literal in state.cut.  The tokens handed to emit are drawn from Tokens.
Token(t, lit, col, ln) == [Type |-> t, Val |-> lit, Column |-> col, Line |-> ln]
Tokens == {Token("Int", <<"1">>, 1, 0), Token("Ident", <<"a">>, 1, 0)}
\* What a receive from a closed, drained channel yields: the zero Token.
ZeroToken == Token("", << >>, 0, 0)

\* make(chan Token, 2)
TokenChCap == 2

\* type state struct
State(i, s, p, l) == [input |-> i, start |-> s, pos |-> p, line |-> l]

\* (s *state) cut(t): the state it leaves and the token it returns.  The
\* slice expression s.input[s.start:s.pos] needs start <= pos <= len(input).
cutKeepsStart(s, t) ==
    [state |-> s,
     token |-> Token(t, SubSeq(s.input, s.start + 1, s.pos), s.pos, s.line)]
cut(s, t) ==
    [state |-> [s EXCEPT !.start = s.pos],
     token |-> Token(t, SubSeq(s.input, s.start + 1, s.pos), s.pos, s.line)]

\* A state function's outcome: the state it leaves, the tokens it passed to
\* the emitter, and the state function it returns.
DefaultStateFn(s) == [state |-> s, emits |-> << >>, next |-> "DefaultStateFn"]
NumberStateFn(s) == [state |-> s, emits |-> << >>, next |-> "DefaultStateFn"]

CallStateFn(fn, s) ==
    IF fn = "NumberStateFn" THEN NumberStateFn(s) ELSE DefaultStateFn(s)

\* l.tokench <- t : possible when the buffer has room
ChanSendInFront(ch, t) == <<t>> \o ch
ChanSend(ch, t) == Append(ch, t)
ChanCanSendOffByOne(ch) == Len(ch) <= TokenChCap
ChanCanSend(ch) == Len(ch) < TokenChCap
\* <-l.tokench : possible when a token is buffered or the channel is closed
ChanCanRecv(ch, cl) == Len(ch) > 0 \/ cl
ChanRecv(ch) == IF Len(ch) > 0 THEN Head(ch) ELSE ZeroToken
ChanRest(ch) == IF Len(ch) > 0 THEN Tail(ch) ELSE ch

\* NewLexer(input): the channel is made and the run goroutine started; run
\* builds the state and sets stateFn := DefaultStateFn.
LexInitOf(inputs) ==
    /\ input \in inputs
    /\ start = 0 /\ pos = 0 /\ line = 0
    /\ stateFn = "DefaultStateFn"
    /\ rpc = "test"
    /\ tokench = << >>
    /\ closed = FALSE
    /\ epc = "idle"
    /\ pending = ZeroToken
    /\ emitted = << >>
    /\ cpc = "idle"
    /\ received = << >>
    /\ eos = FALSE

\* run: the loop condition stateFn != nil; when it fails the loop is left and
\* the channel closed.
RunTest ==
    /\ rpc = "test"
    /\ IF stateFn # "nil"
       THEN rpc' = "call" /\ UNCHANGED closed
       ELSE rpc' = "done" /\ closed' = TRUE
    /\ UNCHANGED <<input, start, pos, line, stateFn, tokench,
                   epc, pending, emitted, cpc, received, eos>>
    /\ UNCHANGED <<memVars, asmVars, eqVars, stVars>>

\* run: the loop body stateFn = stateFn(state, l).  Neither state function
\* calls the emitter, so the body touches no channel.
RunCall ==
    /\ rpc = "call"
    /\ LET r == CallStateFn(stateFn, State(input, start, pos, line))
       IN  /\ r.emits = << >>
           /\ start' = r.state.start
           /\ pos' = r.state.pos
           /\ line' = r.state.line
           /\ stateFn' = r.next
    /\ rpc' = "test"
    /\ UNCHANGED <<input, tokench, closed, epc, pending, emitted, cpc, received, eos>>
    /\ UNCHANGED <<memVars, asmVars, eqVars, stVars>>

\* A caller enters Lexer.emit(t).
EmitCall(t) ==
    /\ epc = "idle"
    /\ Len(emitted) < MaxEmits
    /\ epc' = "sending"
    /\ pending' = t
    /\ emitted' = Append(emitted, t)
    /\ UNCHANGED <<input, start, pos, line, stateFn, rpc, tokench, closed,
                   cpc, received, eos>>
    /\ UNCHANGED <<memVars, asmVars, eqVars, stVars>>

\* Lexer.emit: the send l.tokench <- t completes and emit returns.
EmitSend ==
    /\ epc = "sending"
    /\ ChanCanSend(tokench)
    /\ tokench' = ChanSend(tokench, pending)
    /\ epc' = "idle"
    /\ pending' = ZeroToken
    /\ UNCHANGED <<input, start, pos, line, stateFn, rpc, closed,
                   emitted, cpc, received, eos>>
    /\ UNCHANGED <<memVars, asmVars, eqVars, stVars>>

\* The consumer enters Lexer.NextToken().
NextTokenCall ==
    /\ cpc = "idle"
    /\ cpc' = "receiving"
    /\ UNCHANGED <<input, start, pos, line, stateFn, rpc, tokench, closed,
                   epc, pending, emitted, received, eos>>
    /\ UNCHANGED <<memVars, asmVars, eqVars, stVars>>

\* Lexer.NextToken: the receive <-l.tokench completes and NextToken returns.
NextTokenRecv ==
    /\ cpc = "receiving"
    /\ ChanCanRecv(tokench, closed)
    /\ IF Len(tokench) > 0
       THEN received' = Append(received, ChanRecv(tokench)) /\ UNCHANGED eos
       ELSE eos' = TRUE /\ UNCHANGED received
    /\ tokench' = ChanRest(tokench)
    /\ cpc' = "idle"
    /\ UNCHANGED <<input, start, pos, line, stateFn, rpc, closed,
                   epc, pending, emitted>>
    /\ UNCHANGED <<memVars, asmVars, eqVars, stVars>>

\* The consumer gives the session up: it never calls NextToken again.  The
\* Lexer has no operation for it to call on the way out.
Abandon ==
    /\ cpc = "idle"
    /\ cpc' = "abandoned"
    /\ UNCHANGED <<input, start, pos, line, stateFn, rpc, tokench, closed,
                   epc, pending, emitted, received, eos>>
    /\ UNCHANGED <<memVars, asmVars, eqVars, stVars>>

LexNext ==
    \/ RunTest
    \/ RunCall
    \/ \E t \in Tokens : EmitCall(t)
    \/ EmitSend
    \/ NextTokenCall
    \/ NextTokenRecv
    \/ Abandon

----------------------------------------------------------------------------
(* translate.MemEntryTable *)

Ids == {"a", "b"}
\* An id no Define call of the model ever uses.
UnknownId == "zz"
Bytes == {5, 97}
Values == SeqsUpTo(Bytes, MaxValueLen)

\* type MemEntry struct
MemEntry(offset, size) == [Offset |-> offset, Size |-> size]
\* type MemEntryTable struct
MemEntryTable(entryMap, counter) == [EntryMap |-> entryMap, MemoryCounter |-> counter]

\* An error result: << >> is nil, <<e>> is the error value e.
NilError == << >>
\* type EntryError struct
EntryError(id) == <<[Id |-> id]>>

\* m.EntryMap[id] = entry
MapPut(entryMap, id, entry) ==
    [x \in (DOMAIN entryMap) \cup {id} |-> IF x = id THEN entry ELSE entryMap[x]]

\* NewMemEntryTable()
NewMemEntryTable == MemEntryTable(<< >>, 0)

\* (m *MemEntryTable) Define(id, value): the table it leaves and the entry it
\* returns.
DefineNoAdvance(m, id, value) ==
    LET size == Len(value)
        entry == MemEntry(m.MemoryCounter, size)
    IN  [table |-> MemEntryTable(MapPut(m.EntryMap, id, entry), m.MemoryCounter),
         entry |-> entry]
DefineOffsetAfter(m, id, value) ==
    LET size == Len(value)
        entry == MemEntry(m.MemoryCounter + size, size)
    IN  [table |-> MemEntryTable(MapPut(m.EntryMap, id, entry), m.MemoryCounter + size),
         entry |-> entry]
DefineReuse(m, id, value) ==
    LET size == Len(value)
        entry == MemEntry(m.MemoryCounter, size)
        counter == IF id \in DOMAIN m.EntryMap
                   THEN m.MemoryCounter ELSE m.MemoryCounter + size
    IN  [table |-> MemEntryTable(MapPut(m.EntryMap, id, entry), counter),
         entry |-> entry]
DefineKeepFirst(m, id, value) ==
    LET size == Len(value)
        entry == MemEntry(m.MemoryCounter, size)
        entryMap == IF id \in DOMAIN m.EntryMap
                    THEN m.EntryMap ELSE MapPut(m.EntryMap, id, entry)
    IN  [table |-> MemEntryTable(entryMap, m.MemoryCounter + size),
         entry |-> entry]
Define(m, id, value) ==
    LET size == Len(value)
        entry == MemEntry(m.MemoryCounter, size)
    IN  [table |-> MemEntryTable(MapPut(m.EntryMap, id, entry), m.MemoryCounter + size),
         entry |-> entry]

\* (m MemEntryTable) GetOffsetOfEntry(id): the value and the error it returns.
GetOffsetOfEntryNoId(m, id) ==
    IF id \notin DOMAIN m.EntryMap
    THEN [val |-> 0, err |-> EntryError("")]
    ELSE [val |-> m.EntryMap[id].Offset, err |-> NilError]
GetOffsetOfEntry(m, id) ==
    IF id \notin DOMAIN m.EntryMap
    THEN [val |-> 0, err |-> EntryError(id)]
    ELSE [val |-> m.EntryMap[id].Offset, err |-> NilError]

\* (m MemEntryTable) GetSizeOfEntry(id): the value and the error it returns.
GetSizeOfEntry(m, id) ==
    IF id \notin DOMAIN m.EntryMap
    THEN [val |-> 0, err |-> EntryError(id)]
    ELSE [val |-> m.EntryMap[id].Size, err |-> NilError]

Table == MemEntryTable(EntryMap, MemoryCounter)

MemInit ==
    /\ EntryMap = NewMemEntryTable.EntryMap
    /\ MemoryCounter = NewMemEntryTable.MemoryCounter
    /\ defs = << >>
    /\ memOp = "NewMemEntryTable"
    /\ memId = ""
    /\ memRet = [val |-> 0, err |-> NilError]
    /\ lastDefine = << >>

DefineCall(id, value) ==
    /\ Len(defs) < MaxDefines
    /\ LET r == Define(Table, id, value)
       IN  /\ EntryMap' = r.table.EntryMap
           /\ MemoryCounter' = r.table.MemoryCounter
           /\ memRet' = r.entry
           /\ lastDefine' = <<r.entry>>
    /\ defs' = Append(defs, [id |-> id, size |-> Len(value)])
    /\ memOp' = "Define"
    /\ memId' = id
    /\ UNCHANGED <<lexVars, asmVars, eqVars, stVars>>

GetOffsetOfEntryCall(id) ==
    /\ memRet' = GetOffsetOfEntry(Table, id)
    /\ memOp' = "GetOffsetOfEntry"
    /\ memId' = id
    /\ UNCHANGED <<EntryMap, MemoryCounter, defs, lastDefine>>
    /\ UNCHANGED <<lexVars, asmVars, eqVars, stVars>>

GetSizeOfEntryCall(id) ==
    /\ memRet' = GetSizeOfEntry(Table, id)
    /\ memOp' = "GetSizeOfEntry"
    /\ memId' = id
    /\ UNCHANGED <<EntryMap, MemoryCounter, defs, lastDefine>>
    /\ UNCHANGED <<lexVars, asmVars, eqVars, stVars>>

MemNext ==
    \/ \E id \in Ids, value \in Values : DefineCall(id, value)
    \/ \E id \in Ids \cup {UnknownId} : GetOffsetOfEntryCall(id)
    \/ \E id \in Ids \cup {UnknownId} : GetSizeOfEntryCall(id)

----------------------------------------------------------------------------
(* translate.Asm *)

\* opcode.Type values handed to the assembler; the last one has no mnemonic.
Operators == {1, 33, 255}
\* opcode.Type.String(): the mnemonic and a nil error for a recognized
\* opcode, an error otherwise.
OpString(operator) ==
    CASE operator = 1 -> [str |-> <<"A", "d", "d">>, err |-> NilError]
      [] operator = 33 -> [str |-> <<"P", "u", "s", "h">>, err |-> NilError]
      [] OTHER -> [str |-> << >>, err |-> <<"invalid opcode">>]

\* The operand byte slices handed to the assembler.
OperandValues == {<<0, 0, 0, 1>>, <<0, 0, 0, 2>>, <<171>>}
OperandLists == SeqsUpTo(OperandValues, MaxOperands)

HexDigits == <<"0", "1", "2", "3", "4", "5", "6", "7",
               "8", "9", "a", "b", "c", "d", "e", "f">>
\* fmt.Sprintf("%x", b) of a byte slice: two lower-case digits per byte.
RECURSIVE Hex(_)
Hex(b) ==
    IF b = << >> THEN << >>
    ELSE <<HexDigits[(Head(b) \div 16) + 1], HexDigits[(Head(b) % 16) + 1]>> \o Hex(Tail(b))

\* type AsmCode struct
AsmCode(rawByte, value) == [RawByte |-> rawByte, Value |-> value]

\* The unit of one operand, as convert and ReplaceOperandAt build it.
OperandCode(o) == AsmCode(o, Hex(o))
\* The unit of a recognized operator: RawByte is []byte{byte(operator)}.
OperatorCode(operator, opStr) == AsmCode(<<operator % 256>>, opStr)

\* convert(operator, operands...): the units and the error it returns.
ConvertOperandsFirst(operator, operands) ==
    LET op == OpString(operator)
    IN  IF op.err # NilError
        THEN [codes |-> << >>, err |-> op.err]
        ELSE [codes |-> [i \in 1..Len(operands) |-> OperandCode(operands[i])]
                        \o <<OperatorCode(operator, op.str)>>,
              err |-> NilError]
convert(operator, operands) ==
    LET op == OpString(operator)
    IN  IF op.err # NilError
        THEN [codes |-> << >>, err |-> op.err]
        ELSE [codes |-> <<OperatorCode(operator, op.str)>>
                        \o [i \in 1..Len(operands) |-> OperandCode(operands[i])],
              err |-> NilError]

\* (a *Asm) Emerge(operator, operands...): the units it leaves and the count
\* it returns.
EmergeIgnoresError(codes, operator, operands) ==
    LET c == convert(operator, operands)
    IN  [codes |-> codes \o c.codes, ret |-> Len(codes \o c.codes)]
EmergeReturnsOldCount(codes, operator, operands) ==
    LET c == convert(operator, operands)
    IN  IF c.err # NilError
        THEN [codes |-> codes, ret |-> 0]
        ELSE [codes |-> codes \o c.codes, ret |-> Len(codes)]
Emerge(codes, operator, operands) ==
    LET c == convert(operator, operands)
    IN  IF c.err # NilError
        THEN [codes |-> codes, ret |-> 0]
        ELSE [codes |-> codes \o c.codes, ret |-> Len(codes \o c.codes)]

\* (a *Asm) EmergeAt(index, operator, operands...): the units it leaves and
\* the count it returns.  index is 0-based; the slice expressions need
\* 0 <= index <= len(a.AsmCodes).
EmergeAtReturnsOldCount(codes, index, operator, operands) ==
    LET c == convert(operator, operands)
        inserted == SubSeq(codes, 1, index) \o c.codes
                    \o SubSeq(codes, index + 1, Len(codes))
    IN  IF c.err # NilError
        THEN [codes |-> codes, ret |-> 0]
        ELSE [codes |-> inserted, ret |-> Len(codes)]
EmergeAtOverwrites(codes, index, operator, operands) ==
    LET c == convert(operator, operands)
        inserted == SubSeq(codes, 1, index) \o c.codes
                    \o SubSeq(codes, index + 2, Len(codes))
    IN  IF c.err # NilError
        THEN [codes |-> codes, ret |-> 0]
        ELSE [codes |-> inserted, ret |-> Len(inserted)]
EmergeAt(codes, index, operator, operands) ==
    LET c == convert(operator, operands)
        inserted == SubSeq(codes, 1, index) \o c.codes
                    \o SubSeq(codes, index + 1, Len(codes))
    IN  IF c.err # NilError
        THEN [codes |-> codes, ret |-> 0]
        ELSE [codes |-> inserted, ret |-> Len(inserted)]

\* a.AsmCodes[index] = code, index 0-based
SetAtShifting(codes, index, code) ==
    SubSeq(codes, 1, index) \o <<code>> \o SubSeq(codes, index + 1, Len(codes))
SetAt(codes, index, code) == [codes EXCEPT ![index + 1] = code]

\* (a *Asm) ReplaceOperandAt(index, operands): the units it leaves and the
\* error it returns.
ReplaceOperandAt(codes, index, operands) ==
    [codes |-> SetAt(codes, index, OperandCode(operands)), err |-> NilError]

\* (a *Asm) ReplaceOperatorAt(index, operator): the units it leaves and the
\* error it returns.
ReplaceOperatorAt(codes, index, operator) ==
    LET op == OpString(operator)
    IN  IF op.err # NilError
        THEN [codes |-> codes, err |-> op.err]
        ELSE [codes |-> SetAt(codes, index, OperatorCode(operator, op.str)),
              err |-> NilError]

\* (a *Asm) ToRawByteCode(): the raw bytes of the units, concatenated.
RECURSIVE ToRawByteCodeInFront(_)
ToRawByteCodeInFront(codes) ==
    IF codes = << >> THEN << >>
    ELSE ToRawByteCodeInFront(Tail(codes)) \o Head(codes).RawByte
RECURSIVE ToRawByteCode(_)
ToRawByteCode(codes) ==
    IF codes = << >> THEN << >>
    ELSE Head(codes).RawByte \o ToRawByteCode(Tail(codes))

AsmInit ==
    /\ AsmCodes = << >>
    /\ asmOp = "new"
    /\ asmOperator = 0
    /\ asmOperands = << >>
    /\ asmRet = 0
    /\ asmIndex = 0
    /\ asmErr = NilError
    /\ plain = TRUE
    /\ prevPlain = TRUE
    /\ instrs = << >>

EmergeCall(operator, operands) ==
    /\ Len(AsmCodes) + 1 + Len(operands) <= MaxUnits
    /\ LET r == Emerge(AsmCodes, operator, operands)
           fourBytes == \A i \in 1..Len(operands) : Len(operands[i]) = 4
       IN  /\ AsmCodes' = r.codes
           /\ asmRet' = r.ret
           /\ plain' = (plain /\ (r.codes = AsmCodes \/ fourBytes))
           /\ instrs' = IF ~plain' THEN << >>
                        ELSE IF r.codes = AsmCodes THEN instrs
                        ELSE Append(instrs, <<operator, operands>>)
    /\ asmOp' = "Emerge"
    /\ asmOperator' = operator
    /\ asmOperands' = operands
    /\ asmIndex' = 0
    /\ asmErr' = NilError
    /\ prevPlain' = plain
    /\ UNCHANGED <<lexVars, memVars, eqVars, stVars>>

EmergeAtCall(index, operator, operands) ==
    /\ Len(AsmCodes) + 1 + Len(operands) <= MaxUnits
    /\ 0 <= index /\ index <= Len(AsmCodes)
    /\ LET r == EmergeAt(AsmCodes, index, operator, operands)
       IN  /\ AsmCodes' = r.codes
           /\ asmRet' = r.ret
           /\ plain' = (plain /\ r.codes = AsmCodes)
           /\ instrs' = IF plain' THEN instrs ELSE << >>
    /\ asmOp' = "EmergeAt"
    /\ asmOperator' = operator
    /\ asmOperands' = operands
    /\ asmIndex' = index
    /\ asmErr' = NilError
    /\ prevPlain' = plain
    /\ UNCHANGED <<lexVars, memVars, eqVars, stVars>>

ReplaceOperandAtCall(index, operands) ==
    /\ 0 <= index /\ index < Len(AsmCodes)
    /\ LET r == ReplaceOperandAt(AsmCodes, index, operands)
       IN  /\ AsmCodes' = r.codes
           /\ asmErr' = r.err
           /\ plain' = (plain /\ r.codes = AsmCodes)
           /\ instrs' = IF plain' THEN instrs ELSE << >>
    /\ asmOp' = "ReplaceOperandAt"
    /\ asmOperator' = 0
    /\ asmOperands' = <<operands>>
    /\ asmIndex' = index
    /\ asmRet' = 0
    /\ prevPlain' = plain
    /\ UNCHANGED <<lexVars, memVars, eqVars, stVars>>

\* A rejected operator returns before a.AsmCodes[index] is evaluated, so the
\* index may then be len(a.AsmCodes) as well.
ReplaceOperatorAtCall(index, operator) ==
    /\ 0 <= index /\ index <= Len(AsmCodes)
    /\ OpString(operator).err = NilError => index < Len(AsmCodes)
    /\ LET r == ReplaceOperatorAt(AsmCodes, index, operator)
       IN  /\ AsmCodes' = r.codes
           /\ asmErr' = r.err
           /\ plain' = (plain /\ r.codes = AsmCodes)
           /\ instrs' = IF plain' THEN instrs ELSE << >>
    /\ asmOp' = "ReplaceOperatorAt"
    /\ asmOperator' = operator
    /\ asmOperands' = << >>
    /\ asmIndex' = index
    /\ asmRet' = 0
    /\ prevPlain' = plain
    /\ UNCHANGED <<lexVars, memVars, eqVars, stVars>>

AsmNext ==
    \/ \E operator \in Operators, operands \in OperandLists :
          EmergeCall(operator, operands)
    \/ \E index \in 0..MaxUnits, operator \in Operators, operands \in OperandLists :
          EmergeAtCall(index, operator, operands)
    \/ \E index \in 0..MaxUnits, operands \in OperandValues :
          ReplaceOperandAtCall(index, operands)
    \/ \E index \in 0..MaxUnits, operator \in Operators :
          ReplaceOperatorAtCall(index, operator)

\* strings.Join(s, " ") of the units' Values.
RECURSIVE JoinValues(_)
JoinValues(codes) ==
    IF codes = << >> THEN << >>
    ELSE IF Len(codes) = 1 THEN Head(codes).Value
    ELSE Head(codes).Value \o <<" ">> \o JoinValues(Tail(codes))

\* (a *Asm) String(): "[" + the Values joined by one space + "]", as a
\* sequence of characters.
String(codes) == <<"[">> \o JoinValues(codes) \o <<"]">>

\* (a *Asm) Equal(a1): the lengths are compared first, then the units index
\* by index, Value and RawByte.
EqualValuesOnly(a, a1) ==
    IF Len(a) # Len(a1) THEN FALSE
    ELSE \A i \in 1..Len(a) : a[i].Value = a1[i].Value
EqualNoLengthCheck(a, a1) ==
    \A i \in 1..Len(a) :
        i <= Len(a1) /\ a[i].Value = a1[i].Value /\ a[i].RawByte = a1[i].RawByte
Equal(a, a1) ==
    IF Len(a) # Len(a1) THEN FALSE
    ELSE \A i \in 1..Len(a) :
            a[i].Value = a1[i].Value /\ a[i].RawByte = a1[i].RawByte

\* The units of the Asms handed to Equal: the units convert builds for the
\* recognized operators and two operands, and one unit built as a struct
\* literal whose Value is that of Add and whose RawByte is not.
EqualUnits ==
    {OperatorCode(1, OpString(1).str), OperatorCode(33, OpString(33).str),
     OperandCode(<<0, 0, 0, 1>>), OperandCode(<<0, 0, 0, 2>>),
     AsmCode(<<2>>, OpString(1).str)}
EqualAsms == SeqsUpTo(EqualUnits, MaxEqualLen)

EqInit ==
    /\ eqA = << >>
    /\ eqB = << >>
    /\ eqOp = "new"
    /\ eqRet = [ab |-> TRUE, ba |-> TRUE, aa |-> TRUE]
    /\ eqDone = {}
    /\ eqRaw = [a |-> << >>, b |-> << >>]
    /\ eqStr = [a |-> << >>, b |-> << >>]

\* a.Equal(a1), a1.Equal(a) and a.Equal(a) are called; none writes to either
\* Asm.
EqualCall ==
    /\ eqRet' = [ab |-> Equal(eqA, eqB), ba |-> Equal(eqB, eqA), aa |-> Equal(eqA, eqA)]
    /\ eqOp' = "Equal"
    /\ eqDone' = eqDone \cup {"Equal"}
    /\ UNCHANGED <<eqA, eqB, eqRaw, eqStr>>
    /\ UNCHANGED <<lexVars, memVars, asmVars, stVars>>

\* a.ToRawByteCode() and a1.ToRawByteCode() are called; the result is a fresh
\* slice the units' bytes are copied into.
ToRawByteCodeCall ==
    /\ eqRaw' = [a |-> ToRawByteCode(eqA), b |-> ToRawByteCode(eqB)]
    /\ eqOp' = "ToRawByteCode"
    /\ eqDone' = eqDone \cup {"ToRawByteCode"}
    /\ UNCHANGED <<eqA, eqB, eqRet, eqStr>>
    /\ UNCHANGED <<lexVars, memVars, asmVars, stVars>>

\* a.String() and a1.String() are called.
StringCall ==
    /\ eqStr' = [a |-> String(eqA), b |-> String(eqB)]
    /\ eqOp' = "String"
    /\ eqDone' = eqDone \cup {"String"}
    /\ UNCHANGED <<eqA, eqB, eqRet, eqRaw>>
    /\ UNCHANGED <<lexVars, memVars, asmVars, stVars>>

EqualNext ==
    \/ EqualCall
    \/ ToRawByteCodeCall
    \/ StringCall

----------------------------------------------------------------------------
(* parse.state: cut and the state functions applied to one state *)

TokenTypes == {"Int", "Ident"}
Digits == {"1"}
Lines == {0, 1}

StInit ==
    /\ stOp = "new"
    /\ stRet = [token |-> ZeroToken, emits |-> << >>, next |-> ""]

\* s.cut(t) is called.
CutCall(t) ==
    /\ LET r == cut(State(input, start, pos, line), t)
       IN  /\ start' = r.state.start
           /\ pos' = r.state.pos
           /\ line' = r.state.line
           /\ stRet' = [token |-> r.token, emits |-> << >>, next |-> ""]
    /\ stOp' = "cut"
    /\ UNCHANGED <<input, stateFn, rpc, tokench, closed, epc, pending, emitted,
                   cpc, received, eos>>
    /\ UNCHANGED <<memVars, asmVars, eqVars>>

\* NumberStateFn(s, e) is called with the cursor at a digit.
NumberStateFnCall ==
    /\ pos < Len(input)
    /\ input[pos + 1] \in Digits
    /\ LET r == NumberStateFn(State(input, start, pos, line))
       IN  /\ start' = r.state.start
           /\ pos' = r.state.pos
           /\ line' = r.state.line
           /\ stRet' = [token |-> ZeroToken, emits |-> r.emits, next |-> r.next]
    /\ stOp' = "NumberStateFn"
    /\ UNCHANGED <<input, stateFn, rpc, tokench, closed, epc, pending, emitted,
                   cpc, received, eos>>
    /\ UNCHANGED <<memVars, asmVars, eqVars>>

\* DefaultStateFn(s, e) is called.
DefaultStateFnCall ==
    /\ LET r == DefaultStateFn(State(input, start, pos, line))
       IN  /\ start' = r.state.start
           /\ pos' = r.state.pos
           /\ line' = r.state.line
           /\ stRet' = [token |-> ZeroToken, emits |-> r.emits, next |-> r.next]
    /\ stOp' = "DefaultStateFn"
    /\ UNCHANGED <<input, stateFn, rpc, tokench, closed, epc, pending, emitted,
                   cpc, received, eos>>
    /\ UNCHANGED <<memVars, asmVars, eqVars>>

StateNext ==
    \/ \E t \in TokenTypes : CutCall(t)
    \/ NumberStateFnCall
    \/ DefaultStateFnCall

----------------------------------------------------------------------------
(* Specifications *)

\* One lexical session.  The Go scheduler runs every goroutine that can take
\* a step: the run goroutine, a send that has room, a receive that has a
\* token.  Nothing obliges a caller to enter emit or NextToken.
InitLexer == LexInitOf(Inputs) /\ MemInit /\ AsmInit /\ EqInit /\ StInit
SpecLexer ==
    /\ InitLexer
    /\ [][LexNext]_vars
    /\ WF_vars(RunTest) /\ WF_vars(RunCall)
    /\ WF_vars(EmitSend) /\ WF_vars(NextTokenRecv)

\* One MemEntryTable under any sequence of calls.
InitMem == LexInitOf({<< >>}) /\ MemInit /\ AsmInit /\ EqInit /\ StInit
SpecMem == InitMem /\ [][MemNext]_vars

\* One Asm under any sequence of calls.
InitAsm == LexInitOf({<< >>}) /\ MemInit /\ AsmInit /\ EqInit /\ StInit
SpecAsm == InitAsm /\ [][AsmNext]_vars

\* Equal applied to any two Asms of at most MaxEqualLen units.
InitEqual ==
    /\ LexInitOf({<< >>}) /\ MemInit /\ AsmInit /\ StInit
    /\ eqA \in EqualAsms
    /\ eqB \in EqualAsms
    /\ eqOp = "new"
    /\ eqRet = [ab |-> TRUE, ba |-> TRUE, aa |-> TRUE]
    /\ eqDone = {}
    /\ eqRaw = [a |-> << >>, b |-> << >>]
    /\ eqStr = [a |-> << >>, b |-> << >>]
SpecEqual == InitEqual /\ [][EqualNext]_vars

\* cut and the state functions applied, in any order, to a state whose window
\* is any 0 <= start <= pos <= len(input).  (In a lexical session the state
\* functions never move pos, so start = pos = 0 there.)
InitState ==
    /\ input \in Inputs
    /\ pos \in 0..Len(input)
    /\ start \in 0..pos
    /\ line \in Lines
    /\ stateFn = "DefaultStateFn"
    /\ rpc = "test"
    /\ tokench = << >>
    /\ closed = FALSE
    /\ epc = "idle"
    /\ pending = ZeroToken
    /\ emitted = << >>
    /\ cpc = "idle"
    /\ received = << >>
    /\ eos = FALSE
    /\ MemInit /\ AsmInit /\ EqInit /\ StInit
SpecState == InitState /\ [][StateNext]_vars

Init == InitLexer
Next == LexNext \/ MemNext \/ AsmNext \/ EqualNext \/ StateNext
Spec == Init /\ [][Next]_vars

----------------------------------------------------------------------------
(* Claims about parse.Lexer, under SpecLexer *)

\* The emit calls that have returned: every token passed to emit but the one
\* a blocked call still holds.
EmitsReturned == Len(emitted) - (IF epc = "sending" THEN 1 ELSE 0)
InFlight == IF epc = "sending" THEN <<pending>> ELSE << >>

\* C1: every call to NextToken eventually returns: a consumer inside
\* NextToken is never blocked forever (it gets a token, or the end-of-input
\* signal once run has closed the channel).
C1_NextTokenReturns == [](cpc = "receiving" => <>(cpc = "idle"))

\* C2: for every input the loop of run reaches the nil state function after
\* finitely many invocations and then closes the token channel.
C2_RunTerminates == <>(rpc = "done" /\ closed)

\* C3: the tokens returned by successive NextToken calls are a prefix of the
\* tokens passed to emit, in the same order; none is lost, duplicated or
\* reordered: the tokens passed to emit are exactly those returned, then those
\* buffered, then the one a blocked emit holds.
C3_TokensInOrder ==
    /\ IsPrefix(received, emitted)
    /\ emitted = received \o tokench \o InFlight
C3_Witness ==
    /\ Len(received) = 3
    /\ received[1] # received[2]
    /\ Len(emitted) = 4
    /\ Len(tokench) = 1

\* C4: once the consumer has abandoned the session the producer eventually
\* terminates: run returns and no emit call stays blocked.
C4_ProducerTerminates == (cpc = "abandoned") ~> (rpc = "done" /\ epc = "idle")

\* C5: at most 2 tokens are emitted and not yet consumed; an emit call does
\* not complete while the queue is full, and a NextToken call does not
\* complete while the queue is empty and not closed.
C5_QueueBounded ==
    /\ Len(tokench) <= 2
    /\ EmitsReturned - Len(received) <= 2
    /\ (epc = "sending" /\ Len(tokench) = 2) => ~ENABLED EmitSend
    /\ (cpc = "receiving" /\ Len(tokench) = 0 /\ ~closed) => ~ENABLED NextTokenRecv
C5_Witness ==
    /\ Len(tokench) = 2
    /\ epc = "sending"
    /\ EmitsReturned - Len(received) = 2
    /\ Len(received) = 1

----------------------------------------------------------------------------
(* Claims about translate.MemEntryTable, under SpecMem *)

\* The sum of the sizes of the first k Define calls.
RECURSIVE SumSizes(_, _)
SumSizes(d, k) == IF k = 0 THEN 0 ELSE SumSizes(d, k - 1) + d[k].size

\* The sum of the Size fields of the entries recorded in a map.
RECURSIVE SumEntries(_, _)
SumEntries(entryMap, ids) ==
    IF ids = {} THEN 0
    ELSE LET id == CHOOSE x \in ids : TRUE
         IN  entryMap[id].Size + SumEntries(entryMap, ids \ {id})

\* The sizes of the Define calls whose entry a later Define of the same id
\* has overwritten in EntryMap.
RECURSIVE SumOverwritten(_, _)
SumOverwritten(d, k) ==
    IF k = 0 THEN 0
    ELSE SumOverwritten(d, k - 1)
         + (IF \E j \in (k + 1)..Len(d) : d[j].id = d[k].id THEN d[k].size ELSE 0)

\* C6: Define is strictly additive: the k-th Define call on a fresh table
\* returns MemEntry{Offset: s1+...+s(k-1), Size: sk}, and MemoryCounter is
\* s1+...+sn after n calls.
C6_DefineAdditive ==
    /\ MemoryCounter = SumSizes(defs, Len(defs))
    /\ memOp = "Define" =>
          memRet = MemEntry(SumSizes(defs, Len(defs) - 1), defs[Len(defs)].size)
C6_Witness ==
    /\ defs = <<[id |-> "a", size |-> 1], [id |-> "b", size |-> 2]>>
    /\ memOp = "Define"
    /\ memRet = MemEntry(1, 2)
    /\ MemoryCounter = 3

\* C7 as stated: in every state reached by Define calls, calls that reuse an
\* id included, MemoryCounter equals the sum of the Size fields of the entries
\* recorded in EntryMap and the Offset the next Define will assign.
C7_CounterIsSumOfEntries ==
    /\ MemoryCounter = SumEntries(EntryMap, DOMAIN EntryMap)
    /\ \A id \in Ids, value \in Values :
          Define(Table, id, value).entry.Offset = MemoryCounter

\* C7 as amended: MemoryCounter equals the sum of the Size fields of the
\* entries recorded in EntryMap plus the sizes of the entries that a later
\* Define of the same id overwrote, and it equals the Offset the next Define
\* will assign.
C7_CounterIsSumOfEntriesAndOverwritten ==
    /\ MemoryCounter = SumEntries(EntryMap, DOMAIN EntryMap) + SumOverwritten(defs, Len(defs))
    /\ \A id \in Ids, value \in Values :
          Define(Table, id, value).entry.Offset = MemoryCounter
C7_Witness ==
    /\ defs = <<[id |-> "a", size |-> 2], [id |-> "a", size |-> 1]>>
    /\ MemoryCounter = 3
    /\ SumEntries(EntryMap, DOMAIN EntryMap) = 1

\* C8: GetOffsetOfEntry and GetSizeOfEntry of an id that is no key of
\* EntryMap return 0 and an EntryError whose Id is that id; of a key they
\* return a nil error; both leave EntryMap and MemoryCounter unchanged.
C8_GettersReportMissingId ==
    [][(memOp' \in {"GetOffsetOfEntry", "GetSizeOfEntry"}) =>
          /\ EntryMap' = EntryMap
          /\ MemoryCounter' = MemoryCounter
          /\ IF memId' \in DOMAIN EntryMap
             THEN memRet'.err = << >>
             ELSE memRet' = [val |-> 0, err |-> <<[Id |-> memId']>>]]_vars
C8_Witness ==
    /\ memOp = "GetOffsetOfEntry"
    /\ memId = "b"
    /\ DOMAIN EntryMap = {"a"}
    /\ EntryMap["a"].Offset > 0
    /\ memRet = [val |-> 0, err |-> <<[Id |-> "b"]>>]

\* C9: Define of an id that is already defined allocates a new entry at the
\* current MemoryCounter and advances MemoryCounter by the value's length
\* again; afterwards the getters return the offset and size of this most
\* recent Define, and the entries of all other ids are unchanged.
C9_RedefineAllocatesAgain ==
    [][(memOp' = "Define" /\ defs' # defs /\ memId' \in DOMAIN EntryMap) =>
          LET size == defs'[Len(defs')].size
          IN  /\ memRet' = MemEntry(MemoryCounter, size)
              /\ MemoryCounter' = MemoryCounter + size
              /\ memRet'.Offset >= EntryMap[memId'].Offset + EntryMap[memId'].Size
              /\ GetOffsetOfEntry(Table', memId') = [val |-> MemoryCounter, err |-> << >>]
              /\ GetSizeOfEntry(Table', memId') = [val |-> size, err |-> << >>]
              /\ DOMAIN EntryMap' = DOMAIN EntryMap
              /\ \A other \in (DOMAIN EntryMap) \ {memId'} :
                    EntryMap'[other] = EntryMap[other]]_vars
C9_Witness ==
    /\ defs = <<[id |-> "a", size |-> 2], [id |-> "b", size |-> 1], [id |-> "a", size |-> 1]>>
    /\ memOp = "Define"
    /\ memId = "a"
    /\ EntryMap["a"] = MemEntry(3, 1)
    /\ EntryMap["b"] = MemEntry(2, 1)
    /\ MemoryCounter = 4

----------------------------------------------------------------------------
(* Claims about translate.Asm, under SpecAsm *)

\* C10: Emerge with a recognized opcode and n operands appends exactly 1+n
\* units to the end of AsmCodes, the opcode unit first and then one unit per
\* operand in argument order, leaves every unit that was present unchanged at
\* its index, and returns the old unit count + 1 + n.
C10_EmergeAppends ==
    [][(asmOp' = "Emerge" /\ OpString(asmOperator').err = << >>) =>
          LET old == Len(AsmCodes)
              n == Len(asmOperands')
          IN  /\ Len(AsmCodes') = old + 1 + n
              /\ \A i \in 1..old : AsmCodes'[i] = AsmCodes[i]
              /\ AsmCodes'[old + 1] = [RawByte |-> <<asmOperator'>>,
                                       Value |-> OpString(asmOperator').str]
              /\ \A i \in 1..n :
                    AsmCodes'[old + 1 + i] = [RawByte |-> asmOperands'[i],
                                              Value |-> Hex(asmOperands'[i])]
              /\ asmRet' = old + 1 + n]_vars
C10_Witness ==
    /\ asmOp = "Emerge"
    /\ asmOperator = 33
    /\ asmOperands = <<<<0, 0, 0, 1>>, <<0, 0, 0, 2>>>>
    /\ asmRet = 4
    /\ Len(AsmCodes) = 4
    /\ AsmCodes[1].Value = <<"A", "d", "d">>
    /\ AsmCodes[4].Value = <<"0", "0", "0", "0", "0", "0", "0", "2">>


\* Whether the assembler recognizes the operator.
Recognized(operator) == OpString(operator).err = << >>

\* C11: with an opcode that is no recognized mnemonic Emerge and EmergeAt
\* return 0 and ReplaceOperatorAt returns a non-nil error, and AsmCodes is
\* exactly as it was before the call.
C11_RejectedOpcodeNoMutation ==
    [][(asmOp' \in {"Emerge", "EmergeAt", "ReplaceOperatorAt"} /\ ~Recognized(asmOperator')) =>
          /\ AsmCodes' = AsmCodes
          /\ asmOp' \in {"Emerge", "EmergeAt"} => asmRet' = 0
          /\ asmOp' = "ReplaceOperatorAt" => asmErr' # << >>]_vars
C11_Witness ==
    /\ asmOp = "EmergeAt"
    /\ asmOperator = 255
    /\ asmOperands = <<<<0, 0, 0, 1>>>>
    /\ asmIndex = 1
    /\ asmRet = 0
    /\ Len(AsmCodes) = 2

\* The byte offset, in the raw byte code, of the unit at a 0-based index.
UnitOffset(codes, index) == Len(ToRawByteCode(SubSeq(codes, 1, index)))

\* C12: on an Asm built by Emerge calls, ReplaceOperandAt(i, target) with a
\* 4-byte target on a 4-byte operand unit leaves the length of the raw byte
\* code unchanged, puts the target bytes at the byte offset the operand
\* occupied, and changes no other byte.
C12_Backpatch ==
    [][(/\ asmOp' = "ReplaceOperandAt"
        /\ plain
        /\ Len(AsmCodes[asmIndex' + 1].RawByte) = 4
        /\ Len(asmOperands'[1]) = 4) =>
          LET old == ToRawByteCode(AsmCodes)
              new == ToRawByteCode(AsmCodes')
              off == UnitOffset(AsmCodes, asmIndex')
          IN  /\ Len(new) = Len(old)
              /\ SubSeq(new, off + 1, off + 4) = asmOperands'[1]
              /\ \A k \in 1..Len(old) : (k <= off \/ k > off + 4) => new[k] = old[k]]_vars
C12_Witness ==
    /\ asmOp = "ReplaceOperandAt"
    /\ prevPlain /\ ~plain
    /\ asmIndex = 2
    /\ asmOperands = <<<<0, 0, 0, 2>>>>
    /\ ToRawByteCode(AsmCodes) = <<1, 33, 0, 0, 0, 2, 1>>

\* C13: EmergeAt(i, opcode, operands...) with 0 <= i <= L, a recognized
\* opcode and n operands yields old[0..i) ++ [opcode unit, operand units] ++
\* old[i..L) and returns L + 1 + n.
C13_EmergeAtInserts ==
    [][(asmOp' = "EmergeAt" /\ Recognized(asmOperator')) =>
          LET L == Len(AsmCodes)
              i == asmIndex'
              n == Len(asmOperands')
          IN  /\ 0 <= i /\ i <= L
              /\ Len(AsmCodes') = L + 1 + n
              /\ \A j \in 1..i : AsmCodes'[j] = AsmCodes[j]
              /\ AsmCodes'[i + 1] = [RawByte |-> <<asmOperator'>>,
                                     Value |-> OpString(asmOperator').str]
              /\ \A k \in 1..n :
                    AsmCodes'[i + 1 + k] = [RawByte |-> asmOperands'[k],
                                            Value |-> Hex(asmOperands'[k])]
              /\ \A j \in (i + 1)..L : AsmCodes'[j + 1 + n] = AsmCodes[j]
              /\ asmRet' = L + 1 + n]_vars
C13_Witness ==
    /\ asmOp = "EmergeAt"
    /\ asmIndex = 1
    /\ asmOperator = 33
    /\ asmOperands = <<<<0, 0, 0, 2>>>>
    /\ asmRet = 4
    /\ ToRawByteCode(AsmCodes) = <<1, 33, 0, 0, 0, 2, 1>>
    /\ AsmCodes[4].Value = <<"A", "d", "d">>

\* The bytes of a list of operands, concatenated.
RECURSIVE Concat(_)
Concat(seqs) == IF seqs = << >> THEN << >> ELSE Head(seqs) \o Concat(Tail(seqs))
\* The bytes of the instructions <<operator, operands>>, laid out in order.
RECURSIVE InstrBytes(_)
InstrBytes(is) ==
    IF is = << >> THEN << >>
    ELSE <<Head(is)[1]>> \o Concat(Head(is)[2]) \o InstrBytes(Tail(is))
\* The sum over the instructions of 1 + 4 * (number of operands).
RECURSIVE InstrSize(_)
InstrSize(is) ==
    IF is = << >> THEN 0 ELSE 1 + 4 * Len(Head(is)[2]) + InstrSize(Tail(is))

\* C14: after any sequence of Emerge calls on an empty Asm with recognized
\* opcodes and 4-byte operands, ToRawByteCode() has 1 + 4 * (number of
\* operands) bytes per instruction, and its bytes are the instructions'
\* opcode byte and operand bytes in emission order.
C14_RawByteCodeLayout ==
    plain => /\ Len(ToRawByteCode(AsmCodes)) = InstrSize(instrs)
             /\ ToRawByteCode(AsmCodes) = InstrBytes(instrs)
C14_Witness ==
    /\ plain
    /\ instrs = <<<<33, <<<<0, 0, 0, 1>>>>>>, <<1, << >>>>, <<1, << >>>>>>
    /\ ToRawByteCode(AsmCodes) = <<33, 0, 0, 0, 1, 1, 1>>

\* A unit is an opcode unit: one raw byte, Value the mnemonic of that opcode.
IsOpcodeUnit(u) ==
    \E operator \in Operators :
        Recognized(operator) /\ u = [RawByte |-> <<operator>>, Value |-> OpString(operator).str]
\* A unit is an operand unit of the canonical width.
IsOperandUnit(u) == Len(u.RawByte) = 4 /\ u.Value = Hex(u.RawByte)

\* C15: in every state reached by Emerge, EmergeAt, ReplaceOperandAt and
\* ReplaceOperatorAt calls the units are a concatenation of well-formed
\* instructions: an opcode unit followed by its operand units, every operand
\* unit of exactly 4 raw bytes.  (The units form such a concatenation exactly
\* when the first is an opcode unit and each is an opcode unit or a 4-byte
\* operand unit.)
C15_WellFormedInstructions ==
    /\ AsmCodes # << >> => IsOpcodeUnit(AsmCodes[1])
    /\ \A i \in 1..Len(AsmCodes) : IsOpcodeUnit(AsmCodes[i]) \/ IsOperandUnit(AsmCodes[i])

\* C19: for an in-range index, ReplaceOperandAt and ReplaceOperatorAt with a
\* recognized opcode change only the unit at that index: the unit count and
\* every other unit are unchanged, and the error returned is nil.
C19_ReplaceInPlace ==
    [][(\/ asmOp' = "ReplaceOperandAt"
        \/ asmOp' = "ReplaceOperatorAt" /\ Recognized(asmOperator')) =>
          /\ Len(AsmCodes') = Len(AsmCodes)
          /\ \A j \in 1..Len(AsmCodes) : j # asmIndex' + 1 => AsmCodes'[j] = AsmCodes[j]
          /\ asmErr' = << >>]_vars
C19_Witness ==
    /\ asmOp = "ReplaceOperatorAt"
    /\ asmOperator = 33
    /\ asmIndex = 2
    /\ asmErr = << >>
    /\ Len(AsmCodes) = 3
    /\ AsmCodes[1] = [RawByte |-> <<171>>, Value |-> <<"a", "b">>]
    /\ AsmCodes[3].Value = <<"P", "u", "s", "h">>

\* C20: Emerge and EmergeAt return 0 exactly when the opcode was rejected: a
\* successful call returns the new unit count, which is at least 1, and a
\* call that returns 0 has not changed the buffer.
C20_ZeroOnlyWhenRejected ==
    [][(asmOp' \in {"Emerge", "EmergeAt"}) =>
          /\ asmRet' = 0 <=> ~Recognized(asmOperator')
          /\ Recognized(asmOperator') => asmRet' >= 1 /\ asmRet' = Len(AsmCodes')
          /\ asmRet' = 0 => AsmCodes' = AsmCodes]_vars
C20_Witness ==
    /\ asmOp = "Emerge"
    /\ asmOperator = 1
    /\ asmOperands = << >>
    /\ asmRet = 1
    /\ Len(AsmCodes) = 1
    /\ plain /\ Len(instrs) = 1

\* C23: appending is insertion at the end: on every Asm, with every opcode
\* and operand list, EmergeAt(len(AsmCodes), opcode, operands...) leaves the
\* same unit sequence and returns the same value as Emerge(opcode,
\* operands...), on an empty buffer and on a rejected opcode as well.
C23_EmergeIsEmergeAtEnd ==
    [][/\ asmOp' = "Emerge" =>
             LET r == EmergeAt(AsmCodes, Len(AsmCodes), asmOperator', asmOperands')
             IN  AsmCodes' = r.codes /\ asmRet' = r.ret
       /\ (asmOp' = "EmergeAt" /\ asmIndex' = Len(AsmCodes)) =>
             LET r == Emerge(AsmCodes, asmOperator', asmOperands')
             IN  AsmCodes' = r.codes /\ asmRet' = r.ret]_vars
C23_Witness ==
    /\ asmOp = "EmergeAt"
    /\ asmIndex = 2
    /\ asmOperator = 33
    /\ asmOperands = <<<<0, 0, 0, 2>>>>
    /\ asmRet = 4
    /\ ToRawByteCode(AsmCodes) = <<33, 0, 0, 0, 1, 33, 0, 0, 0, 2>>

----------------------------------------------------------------------------
(* Further claims about translate.MemEntryTable, under SpecMem *)

\* The bytes [Offset, Offset + Size) of an entry.
EntryRange(e) == e.Offset..(e.Offset + e.Size - 1)

\* C21: after any sequence of Define calls (redefinitions and zero-length
\* values included) the byte ranges of the entries recorded in EntryMap are
\* pairwise disjoint and lie within [0, MemoryCounter); MemoryCounter never
\* decreases; each Define returns an Offset that is at least the previous
\* Define's Offset plus its Size.
C21_EntriesDisjoint ==
    /\ [](/\ \A id \in DOMAIN EntryMap :
                /\ 0 <= EntryMap[id].Offset
                /\ 0 <= EntryMap[id].Size
                /\ EntryMap[id].Offset + EntryMap[id].Size <= MemoryCounter
          /\ \A id1, id2 \in DOMAIN EntryMap :
                id1 # id2 =>
                    EntryRange(EntryMap[id1]) \cap EntryRange(EntryMap[id2]) = {})
    /\ [][/\ MemoryCounter' >= MemoryCounter
          /\ (memOp' = "Define" /\ defs' # defs /\ lastDefine # << >>) =>
                memRet'.Offset >= lastDefine[1].Offset + lastDefine[1].Size]_vars
C21_Witness ==
    /\ defs = <<[id |-> "a", size |-> 2], [id |-> "b", size |-> 0], [id |-> "a", size |-> 1]>>
    /\ memOp = "Define"
    /\ lastDefine = <<MemEntry(2, 1)>>
    /\ EntryMap["a"] = MemEntry(2, 1)
    /\ EntryMap["b"] = MemEntry(2, 0)
    /\ MemoryCounter = 3

----------------------------------------------------------------------------
(* Claims about translate.Asm.Equal, under SpecEqual *)

\* C16: Equal is reflexive and symmetric, and it returns false whenever the
\* two unit sequences differ in length or some unit at the same index differs
\* in raw bytes.
C16_EqualReflexiveSymmetric ==
    eqOp = "Equal" =>
        /\ eqRet.aa
        /\ eqRet.ab = eqRet.ba
        /\ Len(eqA) # Len(eqB) => ~eqRet.ab
        /\ (/\ Len(eqA) = Len(eqB)
            /\ \E i \in 1..Len(eqA) : eqA[i].RawByte # eqB[i].RawByte) => ~eqRet.ab
C16_Witness ==
    /\ eqOp = "Equal"
    /\ ToRawByteCode(eqA) = <<33, 0, 0, 0, 1>>
    /\ ToRawByteCode(eqB) = <<33, 0, 0, 0, 2>>
    /\ Len(eqA) = 2 /\ Len(eqB) = 2
    /\ eqRet = [ab |-> FALSE, ba |-> FALSE, aa |-> TRUE]

\* C22: whenever a.Equal(a1) holds, a.ToRawByteCode() equals
\* a1.ToRawByteCode() byte for byte and a.String() equals a1.String(); and
\* Equal, ToRawByteCode and String never modify either Asm.
C22_EqualCongruence ==
    /\ []((eqDone = {"Equal", "ToRawByteCode", "String"} /\ eqRet.ab) =>
            /\ eqRaw.a = eqRaw.b
            /\ eqStr.a = eqStr.b)
    /\ [][eqA' = eqA /\ eqB' = eqB]_vars
C22_Witness ==
    /\ eqDone = {"Equal", "ToRawByteCode", "String"}
    /\ eqRet.ab
    /\ Len(eqA) = 2 /\ Len(eqB) = 2
    /\ eqRaw = [a |-> <<33, 0, 0, 0, 1>>, b |-> <<33, 0, 0, 0, 1>>]
    /\ eqStr.a = <<"[", "P", "u", "s", "h", " ", "0", "0", "0", "0", "0", "0", "0", "1", "]">>
    /\ eqStr.b = eqStr.a

----------------------------------------------------------------------------
(* Claims about parse.state, under SpecState *)

\* C17: 0 <= start <= pos <= len(input) in every state; cut(t) returns a token
\* whose literal is input[start:pos] and then sets start = pos, leaving input,
\* pos and line unchanged, so no token is cut with start > pos.
C17_CutKeepsWindow ==
    /\ [](0 <= start /\ start <= pos /\ pos <= Len(input))
    /\ [][stOp' = "cut" =>
             /\ start <= pos
             /\ stRet'.token.Val = SubSeq(input, start + 1, pos)
             /\ Len(stRet'.token.Val) = pos - start
             /\ start' = pos
             /\ input' = input /\ pos' = pos /\ line' = line]_vars
C17_Witness ==
    /\ stOp = "cut"
    /\ input = <<"1", "a">>
    /\ stRet.token.Val = <<"a">>
    /\ start = 2 /\ pos = 2

\* The end of the maximal run of digits that begins at position p.
RECURSIVE DigitRunEnd(_, _)
DigitRunEnd(in, p) ==
    IF p < Len(in) /\ in[p + 1] \in Digits THEN DigitRunEnd(in, p + 1) ELSE p

\* C18: NumberStateFn, entered with the cursor at a digit, advances pos over
\* the maximal run of digits, emits exactly one token whose literal is that
\* run, and returns DefaultStateFn.
C18_NumberStateFnScans ==
    [][stOp' = "NumberStateFn" =>
          /\ pos' = DigitRunEnd(input, pos)
          /\ Len(stRet'.emits) = 1
          /\ stRet'.emits[1].Val = SubSeq(input, pos + 1, pos')
          /\ stRet'.next = "DefaultStateFn"]_vars

====
